---------------------------- MODULE Spec2Model ----------------------------
(***************************************************************************)
(* A model of luhnsynth (src/src/main.rs): a generator of synthetic        *)
(* payment-card transactions and its two serializers.                      *)
(*                                                                         *)
(* Conventions.                                                            *)
(*  - A string of decimal digits (a card number, a CVV) is the sequence of *)
(*    its digit values, <<4, 0, 1, 2>> for "4012".  Other strings are TLA+ *)
(*    strings.                                                             *)
(*  - Every value drawn from rand::thread_rng(), and every outcome of the  *)
(*    file system, is an input of the operator that models the function,   *)
(*    and is chosen with \E by the action that calls it.                   *)
(*  - An f64 amount is the pair [cents, ulps]: the f64 nearest to          *)
(*    cents/100, moved by `ulps` units in the last place.                  *)
(*  - A Rust panic is the value PANIC.                                     *)
(***************************************************************************)
EXTENDS Integers, Sequences, FiniteSets, TLC

VARIABLES
    pc,           \* position of the modelled call: "start", "done", ...
    brand,        \* generate_card_number: index of the brand argument
    partial,      \* apply_luhn_algorithm: the argument (the chosen prefix)
    length,       \* generate_card_number: the chosen target length
    full_number,  \* the value returned by apply_luhn_algorithm
    card_number,  \* the value returned by generate_card_number
    device_id,    \* the value returned by gen_device_id
    tx,           \* the value returned by generate_transaction
    count,        \* generate_transactions: the count argument
    transactions, \* the value returned by generate_transactions
    datasets,     \* main: small_dataset, medium_dataset, large_dataset
    next_write,   \* main: which of its six writes comes next
    files,        \* the file system: file name -> content
    result        \* the io::Result of the last write, or of main

vars == <<pc, brand, partial, length, full_number, card_number, device_id, tx,
          count, transactions, datasets, next_write, files, result>>

cardVars == <<brand, partial, length, full_number, card_number>>
batchVars == <<count, transactions>>

PANIC == "PANIC"
NONE == "None"

(***************************************************************************)
(* Bounds of the model.                                                    *)
(***************************************************************************)
\* Of the padding digits apply_luhn_algorithm draws, the last FreeDigits
\* range over 0..9 independently; the ones before them share one value.
FreeDigits == 2

Min(a, b) == IF a < b THEN a ELSE b
Max(a, b) == IF a > b THEN a ELSE b

(***************************************************************************)
(* Reference tables (main).                                                *)
(***************************************************************************)
card_brands ==
    << [name |-> "Visa", prefix |-> << <<4>> >>, lengths |-> <<16>>,
        cvv_length |-> 3],
       [name |-> "Mastercard",
        prefix |-> << <<5, 1>>, <<5, 2>>, <<5, 3>>, <<5, 4>>, <<5, 5>> >>,
        lengths |-> <<16>>, cvv_length |-> 3],
       [name |-> "American Express", prefix |-> << <<3, 4>>, <<3, 7>> >>,
        lengths |-> <<15>>, cvv_length |-> 4],
       [name |-> "Discover",
        prefix |-> << <<6, 0, 1, 1>>, <<6, 4, 4>>, <<6, 4, 5>>, <<6, 4, 6>>,
                      <<6, 4, 7>>, <<6, 4, 8>>, <<6, 4, 9>>, <<6, 5>> >>,
        lengths |-> <<16>>, cvv_length |-> 3] >>

(***************************************************************************)
(* apply_luhn_algorithm                                                    *)
(***************************************************************************)
\* rng.gen_range(0..=9)
Digit == 0 .. 9

\* while number.len() < 15
PadTarget == 15

\* if number.len() < 16
CheckLimit == 16

\* The loop that completes the number: one digit of `rnd` per iteration.
RECURSIVE PadLoop(_, _)
PadLoop(number, rnd) ==
    IF Len(number) < PadTarget
    THEN PadLoop(Append(number, Head(rnd)), Tail(rnd))
    ELSE number

\* How many digits the loop draws for an argument of n characters.
PadCount(n) == Max(0, PadTarget - n)

\* A variant that always removes the last character.
WithoutCheckDigitAlways(number) == SubSeq(number, 1, Len(number) - 1)

\* let without_check_digit = if number.len() < 16 { number.clone() }
\*     else { number[0..number.len()-1].to_string() };
WithoutCheckDigit(number) ==
    IF Len(number) < CheckLimit
    THEN number
    ELSE SubSeq(number, 1, Len(number) - 1)

\* One iteration of `for c in without_check_digit.chars().rev()`.
LuhnValue(digit, double) ==
    IF double
    THEN IF 2 * digit > 9 THEN 2 * digit - 9 ELSE 2 * digit
    ELSE digit

\* The loop, from character i down to the first one; `double` starts false
\* at the last character and flips at every digit.
RECURSIVE LuhnSum(_, _, _)
LuhnSum(s, i, double) ==
    IF i = 0
    THEN 0
    ELSE LuhnValue(s[i], double) + LuhnSum(s, i - 1, ~double)

\* A variant without the final `% 10`: 10 where the sum is a multiple of 10.
CheckDigitNoMod(sum) == 10 - (sum % 10)

\* let check_digit = (10 - (sum % 10)) % 10;
CheckDigit(sum) == (10 - (sum % 10)) % 10

\* format!("{}", n) of a non-negative integer, as its digits.
RECURSIVE DecimalDigits(_)
DecimalDigits(n) ==
    IF n < 10 THEN <<n>> ELSE Append(DecimalDigits(n \div 10), n % 10)

apply_luhn_algorithm(part, rnd) ==
    LET number == PadLoop(part, rnd)
        without_check_digit == WithoutCheckDigit(number)
        sum == LuhnSum(without_check_digit, Len(without_check_digit), FALSE)
        check_digit == CheckDigit(sum)
    IN  without_check_digit \o DecimalDigits(check_digit)

(***************************************************************************)
(* generate_card_number                                                    *)
(***************************************************************************)
\* &s[0..length]: panics when length is past the end of the string.
SliceTo(s, n) == IF n <= Len(s) THEN SubSeq(s, 1, n) ELSE PANIC

generate_card_number(b, prefix_idx, length_idx, rnd) ==
    LET prefix == card_brands[b].prefix[prefix_idx]
        len == card_brands[b].lengths[length_idx]
        full == apply_luhn_algorithm(prefix, rnd)
    IN  [prefix |-> prefix, length |-> len, full_number |-> full,
         card_number |-> SliceTo(full, len)]

(***************************************************************************)
(* The digits the padding loop can draw (see FreeDigits).                  *)
(***************************************************************************)
PadStreams(m) ==
    IF m <= 0
    THEN {<<>>}
    ELSE LET free == Min(m, FreeDigits)
             early == m - free
         IN  {[i \in 1 .. early |-> e] \o t :
                 e \in Digit, t \in [1 .. free -> Digit]}

(***************************************************************************)
(* SpecCard: one call of generate_card_number for each brand of the table. *)
(***************************************************************************)
\* The variables a specification does not use keep these values.
IdleCard ==
    /\ brand = 0
    /\ partial = <<>>
    /\ length = 0
    /\ full_number = <<>>
    /\ card_number = <<>>

IdleRecord ==
    /\ device_id = ""
    /\ tx = NONE

IdleBatch ==
    /\ count = 0
    /\ transactions = <<>>

IdleMain ==
    /\ datasets = <<>>
    /\ next_write = 0
    /\ files = <<>>
    /\ result = NONE

InitCard ==
    /\ pc = "start"
    /\ brand \in 1 .. Len(card_brands)
    /\ partial = <<>>
    /\ length = 0
    /\ full_number = <<>>
    /\ card_number = <<>>
    /\ IdleRecord
    /\ IdleBatch
    /\ IdleMain

GenerateCardNumber ==
    /\ pc = "start"
    /\ \E prefix_idx \in 1 .. Len(card_brands[brand].prefix),
          length_idx \in 1 .. Len(card_brands[brand].lengths) :
         \E rnd \in PadStreams(PadCount(Len(card_brands[brand].prefix[prefix_idx]))) :
            LET r == generate_card_number(brand, prefix_idx, length_idx, rnd)
            IN  /\ partial' = r.prefix
                /\ length' = r.length
                /\ full_number' = r.full_number
                /\ card_number' = r.card_number
    /\ pc' = "done"
    /\ UNCHANGED <<brand, device_id, tx, batchVars, datasets, next_write, files, result>>

NextCard == GenerateCardNumber

SpecCard == InitCard /\ [][NextCard]_vars

(***************************************************************************)
(* SpecLuhn: one call of apply_luhn_algorithm, for the prefixes of the     *)
(* brand table and for longer all-digit arguments of up to 16 characters.  *)
(***************************************************************************)
BrandPrefixes ==
    UNION {{card_brands[b].prefix[i] : i \in 1 .. Len(card_brands[b].prefix)} :
              b \in 1 .. Len(card_brands)}

\* A prefix of the table, continued to 16 characters with one repeated
\* digit e and, as its last character, the digit l: cut to n characters.
LongPartial(p, e, l, n) ==
    SubSeq(p \o [i \in 1 .. (CheckLimit - 1 - Len(p)) |-> e] \o <<l>>, 1, n)

LuhnInputs ==
    BrandPrefixes
    \cup {LongPartial(p, e, l, n) :
            p \in BrandPrefixes, e \in Digit, l \in Digit,
            n \in (PadTarget - FreeDigits) .. CheckLimit}

InitLuhn ==
    /\ pc = "start"
    /\ brand = 0
    /\ partial \in LuhnInputs
    /\ length = 0
    /\ full_number = <<>>
    /\ card_number = <<>>
    /\ IdleRecord
    /\ IdleBatch
    /\ IdleMain

ApplyLuhn ==
    /\ pc = "start"
    /\ \E rnd \in PadStreams(PadCount(Len(partial))) :
          full_number' = apply_luhn_algorithm(partial, rnd)
    /\ pc' = "done"
    /\ UNCHANGED <<brand, partial, length, card_number, device_id, tx,
                   batchVars, datasets, next_write, files, result>>

NextLuhn == ApplyLuhn

SpecLuhn == InitLuhn /\ [][NextLuhn]_vars

(***************************************************************************)
(* Reference tables (main), continued.                                     *)
(***************************************************************************)
merchants ==
    << [name |-> "Acme Retail", id |-> "MER12345", category |-> "Retail"],
       [name |-> "Sunshine Groceries", id |-> "MER22468",
        category |-> "Grocery"],
       [name |-> "Tech Universe", id |-> "MER39521",
        category |-> "Electronics"],
       [name |-> "Cozy Coffee Shop", id |-> "MER41327",
        category |-> "Food & Beverage"],
       [name |-> "Fitness Plus", id |-> "MER57845",
        category |-> "Health & Fitness"],
       [name |-> "BookWorld", id |-> "MER61234",
        category |-> "Books & Media"],
       [name |-> "QuickMart", id |-> "MER78523",
        category |-> "Convenience Store"],
       [name |-> "Urban Fashion", id |-> "MER84751", category |-> "Clothing"],
       [name |-> "Travel Now", id |-> "MER92456", category |-> "Travel"],
       [name |-> "Gourmet Dining", id |-> "MER10387",
        category |-> "Restaurant"] >>

first_names ==
    << "John", "Jane", "Michael", "Emily", "David", "Sarah", "Robert", "Lisa",
       "William", "Emma", "James", "Olivia", "Daniel", "Sophia", "Matthew",
       "Ava", "Christopher", "Mia", "Andrew", "Isabella" >>

last_names ==
    << "Smith", "Johnson", "Williams", "Brown", "Jones", "Garcia", "Miller",
       "Davis", "Rodriguez", "Martinez", "Hernandez", "Lopez", "Gonzalez",
       "Wilson", "Anderson", "Thomas", "Taylor", "Moore", "Jackson",
       "Martin" >>

currencies == << "USD", "EUR", "GBP", "CAD", "AUD", "JPY" >>

user_agents ==
    << "Mozilla/5.0 (Windows NT 10.0; Win64; x64) AppleWebKit/537.36 (KHTML, like Gecko) Chrome/91.0.4472.124 Safari/537.36",
       "Mozilla/5.0 (Macintosh; Intel Mac OS X 10_15_7) AppleWebKit/605.1.15 (KHTML, like Gecko) Version/14.1.1 Safari/605.1.15",
       "Mozilla/5.0 (iPhone; CPU iPhone OS 14_6 like Mac OS X) AppleWebKit/605.1.15 (KHTML, like Gecko) Version/14.0 Mobile/15E148 Safari/604.1" >>

(***************************************************************************)
(* Enums and their samplers.                                               *)
(***************************************************************************)
\* impl Distribution<TransactionStatus> for Standard, on rng.gen_range(0..4)
SampleStatus(r) ==
    CASE r = 0 -> "Approved"
      [] r = 1 -> "Declined"
      [] r = 2 -> "Pending"
      [] OTHER -> "Refunded"

\* impl Distribution<DeclineReason> for Standard, on rng.gen_range(0..4)
SampleDeclineReason(r) ==
    CASE r = 0 -> "InsufficientFunds"
      [] r = 1 -> "CardExpired"
      [] r = 2 -> "InvalidCard"
      [] OTHER -> "SuspiciousActivity"

DeclineReasons ==
    {"InsufficientFunds", "CardExpired", "InvalidCard", "SuspiciousActivity"}

(***************************************************************************)
(* Field generators.                                                       *)
(***************************************************************************)
\* format!("{}", digits) of a digit string.
RECURSIVE DigitString(_)
DigitString(s) ==
    IF s = <<>> THEN "" ELSE ToString(Head(s)) \o DigitString(Tail(s))

\* format!("{:02}", n)
Pad2(n) == IF n < 10 THEN "0" \o ToString(n) ELSE ToString(n)

\* The current instant (Utc::now()), an input of the run: its year, and its
\* day counted from an epoch.
NowYear == 2026
NowDay == 20756

\* gen_random_date: now - Duration::days(days_ago), days_ago in 0..365*3.
\* The instant is kept as its day; to_rfc3339 is applied by
\* generate_transaction.
gen_random_date(days_ago) == NowDay - days_ago

\* DateTime::to_rfc3339, on the day of the instant: the calendar rendering
\* is not modelled, distinct days give distinct strings.
to_rfc3339(day) == "day:" \o ToString(day)

\* gen_random_expiry_date: CardExpiry::new(future_month, now.year() + future_years)
gen_random_expiry_date(future_years, future_month) ==
    [month |-> future_month, year |-> NowYear + future_years]

\* CardExpiry::to_string: format!("{:02}/{}", self.month, self.year % 100)
CardExpiryToString(e) == Pad2(e.month) \o "/" \o ToString(e.year % 100)

\* const CHARSET: &[u8] = b"ABCDEFGHIJKLMNOPQRSTUVWXYZ0123456789";
CHARSET ==
    << "A", "B", "C", "D", "E", "F", "G", "H", "I", "J", "K", "L", "M", "N",
       "O", "P", "Q", "R", "S", "T", "U", "V", "W", "X", "Y", "Z", "0", "1",
       "2", "3", "4", "5", "6", "7", "8", "9" >>

\* gen_transaction_id: "TXN" and 9 characters CHARSET[idx], idx in
\* 0..CHARSET.len(); `idxs` are the 9 draws.
RECURSIVE PushChars(_, _)
PushChars(id, idxs) ==
    IF idxs = <<>>
    THEN id
    ELSE PushChars(id \o CHARSET[Head(idxs) + 1], Tail(idxs))

gen_transaction_id(idxs) == PushChars("TXN", idxs)

\* gen_ip_address: the four draws are o[1] in 1..255, o[2..4] in 0..255
\* (upper ends excluded).
gen_ip_address(o) ==
    ToString(o[1]) \o "." \o ToString(o[2]) \o "." \o ToString(o[3]) \o "."
    \o ToString(o[4])

\* rng.gen_range(10000..99999): the upper end is excluded.
DeviceDraws == 10000 .. (99999 - 1)

gen_device_id(n) == "DEV" \o ToString(n)

\* generate_cvv: `digits` are the `length` draws of rng.gen_range(0..=9).
generate_cvv(len, digits) == DigitString(SubSeq(digits, 1, len))

(***************************************************************************)
(* The amount, an f64.                                                     *)
(*                                                                         *)
(* Every amount the program builds is within one unit in the last place of *)
(* a whole number of cents, so an f64 is kept exactly as                   *)
(*     [cents |-> c, ulps |-> u]:                                          *)
(* the f64 nearest to c/100 (what parsing the decimal "c/100" gives),      *)
(* moved by u units in the last place.  The arithmetic below is IEEE 754   *)
(* binary64, round to nearest even, carried out on residues so that no     *)
(* intermediate value needs more than 31 bits.                             *)
(***************************************************************************)
RECURSIVE Pow2(_)
Pow2(n) == IF n = 0 THEN 1 ELSE 2 * Pow2(n - 1)

\* 2^s mod m, seven bits at a time (m < 2^24, so 128 * m < 2^31)
RECURSIVE Pow2Mod(_, _)
Pow2Mod(s, m) ==
    IF s < 7 THEN Pow2(s) % m ELSE (128 * Pow2Mod(s - 7, m)) % m

\* The binary exponent of the integer n >= 1: 2^e <= n < 2^(e+1).
RECURSIVE Log2Floor(_)
Log2Floor(n) == IF n < 2 THEN 0 ELSE 1 + Log2Floor(n \div 2)

\* For k in 1..99, the g with 2^(-g) <= k/100 < 2^(1-g).
RECURSIVE NegExp100(_)
NegExp100(k) == IF k >= 100 THEN 0 ELSE 1 + NegExp100(2 * k)

\* The significand has 53 bits: an f64 in [2^e, 2^(e+1)) is a multiple of
\* 2^(e - 52).
MantissaBits == 52

\* Round to nearest, ties to even: whether a value with integer part of
\* parity `odd`, and fraction rem/den, rounds up.
RoundsUp(rem, den, odd) == 2 * rem > den \/ (2 * rem = den /\ odd = 1)

\* (n as f64) + (k as f64) / 100.0 for integers n in 1..1000, k in 0..100:
\* the result's distance, in units in the last place, from the f64 nearest
\* to n + k/100.
\*   q = RN(k/100) = mq * 2^(-g-52) with mq = RN(k * 2^(52+g) / 100);
\*   the sum n + q is rounded to a multiple of 2^(e-52), e = Log2Floor(n),
\*   which drops the last d = e + g bits of mq.
F64SumUlps(n, k) ==
    IF k = 0 \/ k = 100
    THEN 0   \* k/100 is 0.0 or 1.0, the sum is an integer: exact
    ELSE
      LET e == Log2Floor(n)
          g == NegExp100(k)
          d == e + g
          pd == Pow2(d)
          \* k * 2^(52+g) modulo 100 * 2^(d+1): the remainder of the
          \* division by 100 and the last d+1 bits of the quotient
          x == (k * Pow2Mod(MantissaBits + g, 200 * pd)) % (200 * pd)
          rq == x % 100
          qlow == (x - rq) \div 100
          upq == IF RoundsUp(rq, 100, qlow % 2) THEN 1 ELSE 0
          \* the last d bits of mq, and the carry out of them
          low == (qlow % pd) + upq
          carry == IF low = pd THEN 1 ELSE 0
          ld == low % pd
          \* k * 2^(52-e) / 100: the fraction of n + k/100 below the last
          \* place of the sum
          y == (k * Pow2Mod(MantissaBits - e, 200)) % 200
          rb == y % 100
          fpar == (y - rb) \div 100
          upa == IF RoundsUp(ld, pd, (fpar + carry) % 2) THEN 1 ELSE 0
          upb == IF RoundsUp(rb, 100, fpar) THEN 1 ELSE 0
      IN  carry + upa - upb

\* An integer as f64: exact for the integers of the program.
F64FromInt(n) == [cents |-> 100 * n, ulps |-> 0]

\* The unit interval of rng.gen_range::<f64, _>(0.0..1.0) is modelled by
\* the FracSteps values t / FracSteps, t in 0 .. FracSteps - 1.
FracSteps == 200

\* (frac * 100.0).round() for frac = t / FracSteps: f64::round rounds half
\* away from zero.
RoundCents(t) == (2 * 100 * t + FracSteps) \div (2 * FracSteps)

\* let amount = if currency == "JPY" { rng.gen_range(100..=50000) as f64 }
\*   else { (rng.gen_range(1..=1000) as f64)
\*          + (rng.gen_range::<f64, _>(0.0..1.0) * 100.0).round() / 100.0 };
Amount(currency, jpy, int, frac) ==
    IF currency = "JPY"
    THEN F64FromInt(jpy)
    ELSE LET k == RoundCents(frac)
         IN  [cents |-> 100 * int + k, ulps |-> F64SumUlps(int, k)]

(***************************************************************************)
(* generate_transaction                                                    *)
(***************************************************************************)
\* A variant that draws a reason whatever the status.
DeclineReasonAlways(status, r) == SampleDeclineReason(r)

\* let decline_reason = match status {
\*     TransactionStatus::Declined => Some(rand::random()), _ => None };

DeclineReasonFor(status, r) ==
    IF status = "Declined" THEN SampleDeclineReason(r) ELSE NONE

\* d holds every random draw of one call, named after what it chooses.
generate_transaction(d) ==
    LET b == card_brands[d.brand]
        merchant == merchants[d.merchant]
        status == SampleStatus(d.status)
        currency == currencies[d.currency]
        card == generate_card_number(d.brand, d.prefix_idx, d.length_idx,
                                     d.pad).card_number
        expiry_date == gen_random_expiry_date(d.future_years, d.future_month)
        transaction_date == gen_random_date(d.days_ago)
    IN  IF card = PANIC
        THEN PANIC
        ELSE
          [transaction_id |-> gen_transaction_id(d.txn),
           transaction_date |-> to_rfc3339(transaction_date),
           status |-> status,
           decline_reason |-> DeclineReasonFor(status, d.reason),
           cardholder_name |->
               first_names[d.first_name] \o " " \o last_names[d.last_name],
           card_number |-> DigitString(card),
           card_brand |-> b.name,
           card_expiry |-> CardExpiryToString(expiry_date),
           cvv |-> generate_cvv(b.cvv_length, d.cvv),
           amount |-> Amount(currency, d.jpy, d.int, d.frac),
           currency |-> currency,
           merchant_name |-> merchant.name,
           merchant_id |-> merchant.id,
           merchant_category |-> merchant.category,
           payment_method |-> "credit_card",
           ip_address |-> gen_ip_address(d.ip),
           device_id |-> gen_device_id(d.dev),
           user_agent |-> user_agents[d.user_agent]]

\* One outcome of every draw of a call: the draws a specification does not
\* vary keep these values.
BaseDraw ==
    [brand |-> 1, merchant |-> 4, status |-> 0, first_name |-> 2,
     last_name |-> 6, currency |-> 1, user_agent |-> 1, prefix_idx |-> 1,
     length_idx |-> 1, pad |-> <<1, 1, 1, 1, 1, 1, 1, 1, 1, 1, 1, 1, 1, 1>>,
     future_years |-> 3, future_month |-> 7, days_ago |-> 400, jpy |-> 12345,
     int |-> 537, frac |-> 50, reason |-> 0,
     txn |-> <<0, 1, 2, 26, 27, 28, 35, 25, 9>>, cvv |-> <<0, 4, 2, 7>>,
     ip |-> <<192, 168, 0, 254>>, dev |-> 10000]

(***************************************************************************)
(* SpecAmount: one call of generate_transaction; the draws that choose the *)
(* currency and the amount range over all their values (for one currency   *)
(* with every integer part, for the others with the two ends of the        *)
(* range), the other draws are those of BaseDraw.                          *)
(***************************************************************************)
JpyIndex == CHOOSE c \in 1 .. Len(currencies) : currencies[c] = "JPY"

\* The draws of SpecAmount, from the currency c, the draw j of the JPY
\* amount, and the draws n and t of the integer part and of the fraction.
AmountDraw(c, j, n, t) ==
    [BaseDraw EXCEPT !.currency = c, !.jpy = j, !.int = n, !.frac = t]

InitRecord ==
    /\ pc = "start"
    /\ IdleCard
    /\ IdleRecord
    /\ IdleBatch
    /\ IdleMain

GenerateTransactionAmount ==
    /\ pc = "start"
    /\ \/ \E n \in 1 .. 1000, t \in 0 .. FracSteps - 1 :
            tx' = generate_transaction(AmountDraw(1, BaseDraw.jpy, n, t))
       \/ \E c \in (1 .. Len(currencies)) \ {JpyIndex}, n \in {1, 1000},
             t \in 0 .. FracSteps - 1 :
            tx' = generate_transaction(AmountDraw(c, BaseDraw.jpy, n, t))
       \/ \E j \in 100 .. 50000 :
            tx' = generate_transaction(
                      AmountDraw(JpyIndex, j, BaseDraw.int, BaseDraw.frac))
    /\ pc' = "done"
    /\ UNCHANGED <<cardVars, device_id, batchVars, datasets, next_write, files, result>>

NextAmount == GenerateTransactionAmount

SpecAmount == InitRecord /\ [][NextAmount]_vars

(***************************************************************************)
(* SpecDevice: one call of gen_device_id.                                  *)
(***************************************************************************)
GenDeviceId ==
    /\ pc = "start"
    /\ \E n \in DeviceDraws : device_id' = gen_device_id(n)
    /\ pc' = "done"
    /\ UNCHANGED <<cardVars, tx, batchVars, datasets, next_write, files, result>>

NextDevice == GenDeviceId

SpecDevice == InitRecord /\ [][NextDevice]_vars

(***************************************************************************)
(* generate_transactions                                                   *)
(***************************************************************************)
\* A variant that builds one record too few (a range that starts at 1).
generate_transactions_from_one(n, draws) ==
    [i \in 1 .. (n - 1) |-> generate_transaction(draws[i])]

\* (0..count).map(|_| generate_transaction(..)).collect(); draws[i] holds
\* the draws of the i-th call.
generate_transactions(n, draws) ==
    [i \in 1 .. n |-> generate_transaction(draws[i])]

(***************************************************************************)
(* Files.  A file is [state, data]: absent; old (it holds what an earlier  *)
(* run left); written (created by this run and written in full); partial   *)
(* (created by this run, the write failed).  `data` is what this run wrote: *)
(* the lines of a CSV file, each the sequence of its fields, or the        *)
(* elements of the array of a JSON file.                                   *)
(***************************************************************************)
Absent == [state |-> "absent", data |-> <<>>]
Old == [state |-> "old", data |-> <<>>]

\* io::Result<()>
Ok == "Ok"
Err(at, filename) == "Err(" \o at \o " " \o filename \o ")"

\* An outcome of the file system for one call of a writer: no failure; the
\* failure of File::create; the failure of a write after `done` lines.
NoFault == [at |-> "none", done |-> 0]
CreateFault == [at |-> "create", done |-> 0]
WriteFault(m) == [at |-> "write", done |-> m]

(***************************************************************************)
(* write_transactions_to_csv                                               *)
(***************************************************************************)
\* A field of a line: its characters, and whether the format string puts
\* them between double quotes.
Field(text) == [kind |-> "text", text |-> text, cents |-> 0, quoted |-> FALSE]
Quoted(text) == [kind |-> "text", text |-> text, cents |-> 0, quoted |-> TRUE]

\* {:.2} of an f64: the decimal with two decimal places nearest to it.  The
\* f64 is within one unit in the last place of cents/100, so that decimal
\* is cents/100; the field is kept as the number of cents it spells.
Fixed2(a) == [kind |-> "decimal2", text |-> "", cents |-> a.cents,
              quoted |-> FALSE]

FieldNames ==
    << "transaction_id", "transaction_date", "status", "decline_reason",
       "cardholder_name", "card_number", "card_brand", "card_expiry", "cvv",
       "amount", "currency", "merchant_name", "merchant_id",
       "merchant_category", "payment_method", "ip_address", "device_id",
       "user_agent" >>

\* The header line of the file.
CsvHeader == [i \in 1 .. Len(FieldNames) |-> Field(FieldNames[i])]

\* let decline_reason = match &tx.decline_reason { .. }
CsvDeclineReason(reason) ==
    CASE reason = "InsufficientFunds" -> "insufficient_funds"
      [] reason = "CardExpired" -> "card_expired"
      [] reason = "InvalidCard" -> "invalid_card"
      [] reason = "SuspiciousActivity" -> "suspicious_activity"
      [] reason = NONE -> ""

\* let status = match tx.status { .. }
CsvStatus(status) ==
    CASE status = "Approved" -> "approved"
      [] status = "Declined" -> "declined"
      [] status = "Pending" -> "pending"
      [] status = "Refunded" -> "refunded"

\* The data row of one transaction.
CsvRow(t) ==
    << Field(t.transaction_id), Field(t.transaction_date),
       Field(CsvStatus(t.status)), Field(CsvDeclineReason(t.decline_reason)),
       Quoted(t.cardholder_name), Field(t.card_number), Field(t.card_brand),
       Field(t.card_expiry), Field(t.cvv), Fixed2(t.amount),
       Field(t.currency), Field(t.merchant_name), Field(t.merchant_id),
       Field(t.merchant_category), Field(t.payment_method),
       Field(t.ip_address), Field(t.device_id), Quoted(t.user_agent) >>

\* `existing` is the file before the call, `fault` what the file system does.
write_transactions_to_csv(txs, filename, existing, fault) ==
    LET lines == <<CsvHeader>> \o [i \in 1 .. Len(txs) |-> CsvRow(txs[i])]
    IN  CASE fault.at = "create" ->
               [result |-> Err("create", filename), file |-> existing]
          [] fault.at = "write" ->
               [result |-> Err("write", filename),
                file |-> [state |-> "partial",
                          data |-> SubSeq(lines, 1, fault.done)]]
          [] OTHER ->
               [result |-> Ok, file |-> [state |-> "written", data |-> lines]]

(***************************************************************************)
(* write_transactions_to_json                                              *)
(***************************************************************************)
\* JSON values.  A number is written as the shortest decimal that reads
\* back as the same f64 (serde_json): it is kept as that f64.
JsonString(text) ==
    [kind |-> "string", text |-> text, num |-> [cents |-> 0, ulps |-> 0]]
JsonNull == [kind |-> "null", text |-> "", num |-> [cents |-> 0, ulps |-> 0]]
JsonNumber(a) == [kind |-> "number", text |-> "", num |-> a]

\* #[serde(rename = ..)] of TransactionStatus
SerdeStatus(status) ==
    CASE status = "Approved" -> JsonString("approved")
      [] status = "Declined" -> JsonString("declined")
      [] status = "Pending" -> JsonString("pending")
      [] status = "Refunded" -> JsonString("refunded")

\* Option<DeclineReason>, with #[serde(rename = ..)] of DeclineReason
SerdeDeclineReason(reason) ==
    CASE reason = NONE -> JsonNull
      [] reason = "InsufficientFunds" -> JsonString("insufficient_funds")
      [] reason = "CardExpired" -> JsonString("card_expired")
      [] reason = "InvalidCard" -> JsonString("invalid_card")
      [] reason = "SuspiciousActivity" -> JsonString("suspicious_activity")

Member(key, value) == [key |-> key, value |-> value]

\* #[derive(Serialize)] of Transaction: the members in the order of the
\* fields of the struct.
SerializeTransaction(t) ==
    << Member("transaction_id", JsonString(t.transaction_id)),
       Member("transaction_date", JsonString(t.transaction_date)),
       Member("status", SerdeStatus(t.status)),
       Member("decline_reason", SerdeDeclineReason(t.decline_reason)),
       Member("cardholder_name", JsonString(t.cardholder_name)),
       Member("card_number", JsonString(t.card_number)),
       Member("card_brand", JsonString(t.card_brand)),
       Member("card_expiry", JsonString(t.card_expiry)),
       Member("cvv", JsonString(t.cvv)),
       Member("amount", JsonNumber(t.amount)),
       Member("currency", JsonString(t.currency)),
       Member("merchant_name", JsonString(t.merchant_name)),
       Member("merchant_id", JsonString(t.merchant_id)),
       Member("merchant_category", JsonString(t.merchant_category)),
       Member("payment_method", JsonString(t.payment_method)),
       Member("ip_address", JsonString(t.ip_address)),
       Member("device_id", JsonString(t.device_id)),
       Member("user_agent", JsonString(t.user_agent)) >>

\* serde_json::to_string_pretty(transactions) cannot fail on these values;
\* write_all either writes the whole text or fails, leaving a part of it.
write_transactions_to_json(txs, filename, existing, fault) ==
    LET json == [i \in 1 .. Len(txs) |-> SerializeTransaction(txs[i])]
    IN  CASE fault.at = "create" ->
               [result |-> Err("create", filename), file |-> existing]
          [] fault.at = "write" ->
               [result |-> Err("write", filename),
                file |-> [state |-> "partial", data |-> <<>>]]
          [] OTHER ->
               [result |-> Ok, file |-> [state |-> "written", data |-> json]]

\* What the file system can do during one call of a writer of n records.
CsvFaults(n) == {NoFault, CreateFault} \cup {WriteFault(m) : m \in 0 .. n}
JsonFaults == {NoFault, CreateFault, WriteFault(0)}

(***************************************************************************)
(* SpecBatch: generate_transactions(count, ..) for count in 0 .. MaxCount, *)
(* then the two writers on the batch, as main calls them.                  *)
(***************************************************************************)
MaxCount == 2

\* The draws of the records of a batch: every status and, for a declined
\* record (the only one that draws a reason), every decline reason; JPY and
\* one other currency, the latter (the only one that draws a fraction) with
\* two fractions of the amount, 0.14 and 0.25.
StatusDraws ==
    {<<st, BaseDraw.reason>> : st \in {0, 2, 3}} \cup {<<1, r>> : r \in 0 .. 3}

BatchDraws ==
    {[BaseDraw EXCEPT !.status = sr[1], !.reason = sr[2], !.currency = 1,
                      !.int = 1, !.frac = (h * FracSteps) \div 100] :
        sr \in StatusDraws, h \in {14, 25}}
    \cup {[BaseDraw EXCEPT !.status = sr[1], !.reason = sr[2],
                           !.currency = JpyIndex] : sr \in StatusDraws}

BatchCsv == "batch.csv"
BatchJson == "batch.json"

InitBatch ==
    /\ pc = "start"
    /\ IdleCard
    /\ IdleRecord
    /\ count \in 0 .. MaxCount
    /\ transactions = <<>>
    /\ datasets = <<>>
    /\ next_write = 0
    /\ files = [f \in {BatchCsv, BatchJson} |-> Absent]
    /\ result = NONE

GenerateTransactions ==
    /\ pc = "start"
    /\ \E draws \in [1 .. count -> BatchDraws] :
          transactions' = generate_transactions(count, draws)
    /\ pc' = "generated"
    /\ UNCHANGED <<cardVars, device_id, tx, count, datasets, next_write,
                   files, result>>

WriteCsv ==
    /\ pc = "generated"
    /\ \E fault \in CsvFaults(Len(transactions)) :
          LET r == write_transactions_to_csv(transactions, BatchCsv,
                                             files[BatchCsv], fault)
          IN  /\ files' = [files EXCEPT ![BatchCsv] = r.file]
              /\ result' = r.result
              /\ pc' = IF r.result = Ok THEN "csv_written" ELSE "failed"
    /\ UNCHANGED <<cardVars, device_id, tx, batchVars, datasets, next_write>>

WriteJson ==
    /\ pc = "csv_written"
    /\ \E fault \in JsonFaults :
          LET r == write_transactions_to_json(transactions, BatchJson,
                                              files[BatchJson], fault)
          IN  /\ files' = [files EXCEPT ![BatchJson] = r.file]
              /\ result' = r.result
              /\ pc' = IF r.result = Ok THEN "json_written" ELSE "failed"
    /\ UNCHANGED <<cardVars, device_id, tx, batchVars, datasets, next_write>>

NextBatch == GenerateTransactions \/ WriteCsv \/ WriteJson

SpecBatch == InitBatch /\ [][NextBatch]_vars

(***************************************************************************)
(* SpecMain: main.  The three datasets are generated, then the six files   *)
(* are written in the order of the statements; each write may fail.        *)
(***************************************************************************)
\* The count argument of the three calls of generate_transactions.
DatasetSizes == <<100, 250, 500>>

\* The six writes of main, in order.
Writes ==
    << [format |-> "csv", dataset |-> 1, filename |-> "transactions_100.csv"],
       [format |-> "csv", dataset |-> 2, filename |-> "transactions_250.csv"],
       [format |-> "csv", dataset |-> 3, filename |-> "transactions_500.csv"],
       [format |-> "json", dataset |-> 1,
        filename |-> "transactions_100.json"],
       [format |-> "json", dataset |-> 2,
        filename |-> "transactions_250.json"],
       [format |-> "json", dataset |-> 3,
        filename |-> "transactions_500.json"] >>

FileNames == {Writes[i].filename : i \in 1 .. Len(Writes)}

\* The draws of the n records of a dataset: they vary with the record and
\* with `seed`, the one choice SpecMain makes for a dataset.
DatasetDraws(seed, n) ==
    [j \in 1 .. n |->
        [BaseDraw EXCEPT !.status = (j + seed) % 4, !.reason = j % 4,
                         !.currency = 1 + ((j + seed) % Len(currencies)),
                         !.merchant = 1 + (j % Len(merchants)),
                         !.int = 1 + ((37 * j + seed) % 1000),
                         !.frac = (7 * j) % FracSteps]]

Seeds == {0, 1}

InitMain ==
    /\ pc = "start"
    /\ IdleCard
    /\ IdleRecord
    /\ IdleBatch
    /\ datasets = <<>>
    /\ next_write = 0
    /\ \E before \in {Absent, Old} : files = [f \in FileNames |-> before]
    /\ result = NONE

\* let small_dataset = ..; let medium_dataset = ..; let large_dataset = ..;
MainGenerate ==
    /\ pc = "start"
    /\ \E seed \in Seeds :
          datasets' = [i \in 1 .. Len(DatasetSizes) |->
                          generate_transactions(
                              DatasetSizes[i],
                              DatasetDraws(seed + i, DatasetSizes[i]))]
    /\ pc' = "writing"
    /\ next_write' = 1
    /\ UNCHANGED <<cardVars, device_id, tx, batchVars, files, result>>

\* The value of one `write_..(&dataset, "file")` expression, before `?`.
MainWriteCall(w, fault) ==
    IF w.format = "csv"
    THEN write_transactions_to_csv(datasets[w.dataset], w.filename,
                                   files[w.filename], fault)
    ELSE write_transactions_to_json(datasets[w.dataset], w.filename,
                                    files[w.filename], fault)

MainFaults(w) ==
    IF w.format = "csv"
    THEN CsvFaults(Len(datasets[w.dataset]))
    ELSE JsonFaults

\* A variant that drops the result of the write (no `?`).
PropagateIgnore(r, i) ==
    [pc |-> IF i = Len(Writes) THEN "done" ELSE "writing",
     next_write |-> IF i = Len(Writes) THEN i ELSE i + 1,
     result |-> IF i = Len(Writes) THEN Ok ELSE NONE]

\* `?` on the result r of the write number i: what main does next.
Propagate(r, i) ==
    IF r.result # Ok
    THEN [pc |-> "failed", next_write |-> i, result |-> r.result]
    ELSE [pc |-> IF i = Len(Writes) THEN "done" ELSE "writing",
          next_write |-> IF i = Len(Writes) THEN i ELSE i + 1,
          result |-> IF i = Len(Writes) THEN Ok ELSE NONE]

\* One statement `write_..(&dataset, "file")?;` of main; after the sixth,
\* main prints and returns Ok(()).
MainWrite ==
    /\ pc = "writing"
    /\ \E fault \in MainFaults(Writes[next_write]) :
          LET w == Writes[next_write]
              r == MainWriteCall(w, fault)
              after == Propagate(r, next_write)
          IN  /\ files' = [files EXCEPT ![w.filename] = r.file]
              /\ pc' = after.pc
              /\ next_write' = after.next_write
              /\ result' = after.result
    /\ UNCHANGED <<cardVars, device_id, tx, batchVars, datasets>>

NextMain == MainGenerate \/ MainWrite

SpecMain == InitMain /\ [][NextMain]_vars

(***************************************************************************)
(* The Luhn check of a complete number, as a validator runs it: from the   *)
(* right, the check digit undoubled, every second digit doubled.           *)
(***************************************************************************)
IsDigitString(s) ==
    /\ s \in Seq(Int)
    /\ \A i \in 1 .. Len(s) : s[i] \in Digit

RECURSIVE ValidatorSum(_, _, _)
ValidatorSum(s, i, double) ==
    IF i = 0
    THEN 0
    ELSE (IF double
          THEN (IF 2 * s[i] > 9 THEN 2 * s[i] - 9 ELSE 2 * s[i])
          ELSE s[i])
         + ValidatorSum(s, i - 1, ~double)

PassesLuhn(s) == IsDigitString(s) /\ ValidatorSum(s, Len(s), FALSE) % 10 = 0

StartsWith(s, p) == Len(p) <= Len(s) /\ SubSeq(s, 1, Len(p)) = p

(***************************************************************************)
(* Claims about card numbers.                                              *)
(***************************************************************************)
\* C1: for every brand, prefix, target length and padding digits, the
\* string generate_card_number returns has exactly the chosen target length
\* and only decimal digits, and the slice full_number[0..length] is in
\* bounds (no panic).
C1_LengthAndDigits ==
    pc = "done" =>
        /\ card_number # PANIC
        /\ IsDigitString(card_number)
        /\ length \in {card_brands[brand].lengths[i] :
                          i \in 1 .. Len(card_brands[brand].lengths)}
        /\ Len(card_number) = length

C1_Witness ==
    /\ pc = "done"
    /\ brand = 4
    /\ partial = <<6, 0, 1, 1>>
    /\ Len(card_number) = 16
    /\ card_number[15] = 7

\* C2: every generated card number of target length 16 passes the standard
\* Luhn check (the sum over the full 16 digits is 0 mod 10).
C2_Luhn16 ==
    (pc = "done" /\ length = 16) => PassesLuhn(card_number)

\* C3: for American Express with prefix "34", every generated card number
\* has length 15, starts with "34" and passes the Luhn check.
C3_Amex34 ==
    (pc = "done" /\ brand = 3 /\ partial = <<3, 4>>) =>
        /\ Len(card_number) = 15
        /\ StartsWith(card_number, <<3, 4>>)
        /\ PassesLuhn(card_number)

\* The check digit the code computes for the first 15 characters of s.
ComputedCheckDigit(s) == CheckDigit(LuhnSum(SubSeq(s, 1, 15), 15, FALSE))

\* C10 as stated: for every all-digit argument of at most 16 characters,
\* apply_luhn_algorithm returns exactly 16 characters that start with the
\* argument unchanged and end with the computed check digit; truncation to
\* 16 removes nothing and truncation to 15 removes exactly the check digit.
C10_Original ==
    (pc = "done" /\ Len(partial) <= 16) =>
        /\ Len(full_number) = 16
        /\ StartsWith(full_number, partial)
        /\ full_number[16] = ComputedCheckDigit(full_number)
        /\ SliceTo(full_number, 16) = full_number
        /\ SliceTo(full_number, 15) \o <<full_number[16]>> = full_number

\* C10 as amended: the same for every argument of at most 15 characters; of
\* an argument of 16 characters the first 15 are kept and the 16th is
\* replaced by the computed check digit.
C10_Amended ==
    pc = "done" =>
        /\ Len(full_number) = 16
        /\ IsDigitString(full_number)
        /\ Len(partial) <= 15 => StartsWith(full_number, partial)
        /\ Len(partial) = 16 =>
              SubSeq(full_number, 1, 15) = SubSeq(partial, 1, 15)
        /\ full_number[16] = ComputedCheckDigit(full_number)
        /\ SliceTo(full_number, 16) = full_number
        /\ SliceTo(full_number, 15) \o <<full_number[16]>> = full_number

C10_Witness ==
    /\ pc = "done"
    /\ partial = <<6, 4, 9>>
    /\ Len(full_number) = 16
    /\ full_number[15] = 3
    /\ full_number[16] = 0

(***************************************************************************)
(* Claims about the fields of a record.                                    *)
(***************************************************************************)
\* a < n for an f64 a and an integer n
F64LessThanInt(a, n) ==
    a.cents < 100 * n \/ (a.cents = 100 * n /\ a.ulps < 0)

\* The f64 is the one a decimal with at most two decimal places denotes.
HasTwoDecimals(a) == a.ulps = 0

\* C5: if the currency is JPY the amount is a whole number in [100, 50000];
\* otherwise it is in [1, 1001), strictly below 1001, and has at most two
\* decimal places.
C5_AmountRange ==
    pc = "done" =>
        IF tx.currency = "JPY"
        THEN /\ tx.amount.ulps = 0
             /\ tx.amount.cents % 100 = 0
             /\ tx.amount.cents \div 100 \in 100 .. 50000
        ELSE /\ ~F64LessThanInt(tx.amount, 1)
             /\ F64LessThanInt(tx.amount, 1001)
             /\ HasTwoDecimals(tx.amount)

\* The device ids gen_device_id can return.
PossibleDeviceIds == {gen_device_id(n) : n \in DeviceDraws}

\* C9: the device id is "DEV" and a number; the numbers that can be
\* produced are exactly 10000 .. 99999, 99999 included.
C9_DeviceIdRange ==
    /\ pc = "done" =>
          device_id \in {"DEV" \o ToString(v) : v \in 10000 .. 99999}
    /\ pc = "start" =>
          \A v \in 10000 .. 99999 : ("DEV" \o ToString(v)) \in PossibleDeviceIds

\* C4: in every record generate_transaction builds, decline_reason is
\* present if and only if status is declined: a declined record carries one
\* of the four decline reasons, an approved, pending or refunded record has
\* none.
C4_DeclineReasonIff ==
    \A i \in 1 .. Len(transactions) :
        LET t == transactions[i]
        IN  /\ t.status \in {"Approved", "Declined", "Pending", "Refunded"}
            /\ t.status = "Declined" => t.decline_reason \in DeclineReasons
            /\ t.status # "Declined" => t.decline_reason = NONE

C4_Witness ==
    /\ Len(transactions) = 2
    /\ transactions[1].status = "Declined"
    /\ transactions[1].decline_reason = "SuspiciousActivity"
    /\ transactions[2].status = "Refunded"
    /\ transactions[2].decline_reason = NONE

(***************************************************************************)
(* Claims about batches and files.                                         *)
(***************************************************************************)
\* C8: generate_transactions(count, ..) returns exactly count records, and
\* each writer emits one entry per record: for count = 0 the CSV file is the
\* header line alone and the JSON file an empty array, for count = N the CSV
\* file has the header and N lines and the JSON array N objects.
C8_BatchSize ==
    /\ pc # "start" => Len(transactions) = count
    /\ files[BatchCsv].state = "written" =>
          /\ Len(files[BatchCsv].data) = 1 + count
          /\ files[BatchCsv].data[1] = CsvHeader
          /\ \A i \in 1 .. count :
                files[BatchCsv].data[i + 1][3].text
                    = CsvStatus(transactions[i].status)
    /\ files[BatchJson].state = "written" =>
          /\ Len(files[BatchJson].data) = count
          /\ \A i \in 1 .. count :
                files[BatchJson].data[i][3].value
                    = SerdeStatus(transactions[i].status)

C8_Witness ==
    /\ pc = "json_written"
    /\ count = 2
    /\ Len(files[BatchCsv].data) = 3
    /\ Len(files[BatchJson].data) = 2
    /\ transactions[1].status = "Pending"
    /\ transactions[2].status = "Declined"

\* What a reader makes of a value of either file: a text, a number (an
\* f64) or an absent value.
ReadText(text) == [kind |-> "text", text |-> text, num |-> [cents |-> 0, ulps |-> 0]]
ReadNumber(a) == [kind |-> "number", text |-> "", num |-> a]
ReadAbsent == [kind |-> "absent", text |-> "", num |-> [cents |-> 0, ulps |-> 0]]

\* A field of a CSV line, read under the name of its column: the amount is
\* read as a number (the f64 nearest to the decimal), an empty
\* decline_reason as absent, every other field as its text.
ReadCsvField(name, field) ==
    IF field.kind = "decimal2"
    THEN ReadNumber([cents |-> field.cents, ulps |-> 0])
    ELSE IF name = "decline_reason" /\ field.text = ""
         THEN ReadAbsent
         ELSE ReadText(field.text)

\* The records of a CSV file: the first line names the columns.
ParseCsv(lines) ==
    [i \in 1 .. (Len(lines) - 1) |->
        [name \in {lines[1][j].text : j \in 1 .. Len(lines[1])} |->
            LET j == CHOOSE j \in 1 .. Len(lines[1]) : lines[1][j].text = name
            IN  ReadCsvField(name, lines[i + 1][j])]]

ReadJsonValue(v) ==
    CASE v.kind = "null" -> ReadAbsent
      [] v.kind = "number" -> ReadNumber(v.num)
      [] OTHER -> ReadText(v.text)

\* The records of a JSON file.
ParseJson(array) ==
    [i \in 1 .. Len(array) |->
        [name \in {array[i][j].key : j \in 1 .. Len(array[i])} |->
            LET j == CHOOSE j \in 1 .. Len(array[i]) : array[i][j].key = name
            IN  ReadJsonValue(array[i][j].value)]]

\* C7: parsing the file written by write_transactions_to_csv and the file
\* written by write_transactions_to_json for the same batch gives the same
\* number of records and, record by record, equal values for all 18 fields
\* under the same names, an absent decline reason being read alike.
C7_RoundTrip ==
    pc = "json_written" =>
        /\ Len(ParseCsv(files[BatchCsv].data)) = Len(transactions)
        /\ \A i \in 1 .. Len(transactions) :
              /\ DOMAIN ParseCsv(files[BatchCsv].data)[i]
                    = {FieldNames[j] : j \in 1 .. 18}
              /\ ParseCsv(files[BatchCsv].data)[i]
                    = ParseJson(files[BatchJson].data)[i]
        /\ ParseCsv(files[BatchCsv].data) = ParseJson(files[BatchJson].data)

\* The file the write number j of main leaves when it succeeds.
CompleteFile(j) ==
    LET w == Writes[j]
        file == files[w.filename]
    IN  /\ file.state = "written"
        /\ Len(file.data)
              = IF w.format = "csv"
                THEN 1 + DatasetSizes[w.dataset]
                ELSE DatasetSizes[w.dataset]
        /\ w.format = "csv" => file.data[1] = CsvHeader

\* The file of the write number j was neither opened nor written.
Untouched(j) == files[Writes[j].filename] \in {Absent, Old}

\* C6: if one of the six writes of main fails, the run stops at once and
\* returns that I/O error; no later file is opened or written, the files
\* written earlier keep their complete content, and the run returns Ok only
\* when all six writes succeeded.
C6_FailFast ==
    /\ pc = "writing" =>
          /\ \A j \in 1 .. (next_write - 1) : CompleteFile(j)
          /\ \A j \in next_write .. Len(Writes) : Untouched(j)
    /\ pc = "failed" =>
          /\ result \in {Err("create", Writes[next_write].filename),
                         Err("write", Writes[next_write].filename)}
          /\ ~CompleteFile(next_write)
          /\ \A j \in 1 .. (next_write - 1) : CompleteFile(j)
          /\ \A j \in (next_write + 1) .. Len(Writes) : Untouched(j)
          /\ ~ENABLED NextMain
    /\ pc = "done" =>
          /\ result = Ok
          /\ \A j \in 1 .. Len(Writes) : CompleteFile(j)
    /\ result = Ok => \A j \in 1 .. Len(Writes) : CompleteFile(j)

C6_Witness ==
    /\ pc = "failed"
    /\ next_write = 5
    /\ result = Err("write", "transactions_250.json")
    /\ files["transactions_500.csv"].state = "written"
    /\ files["transactions_100.json"].state = "written"
    /\ files["transactions_250.json"].state = "partial"
    /\ files["transactions_500.json"] = Old

=============================================================================
